---- MODULE Spec2Model ----
(***************************************************************************)
(* The page-level activities manager of web-activities (src/activities.js) *)
(* as a state machine: the handler registry, the result buffer, the window *)
(* ports that open() creates, and the page's microtask queue on which the  *)
(* promise reactions of open() and consumeResult_() run.                   *)
(***************************************************************************)
EXTENDS Naturals, Sequences, FiniteSets, TLC

\* ------------------------------------------------------------------ bounds
MaxOpens == 2          \* calls of open() in one run
MaxRegs == 3           \* calls of onResult() in one run
MaxApiCalls == 4       \* calls of open() and onResult() together in one run
MaxHostCalls == 2      \* calls of connectHost() in one run
MaxIframeCalls == 3    \* calls of openIframe() in one run

\* ------------------------------------------------------------ value domains
Null == "null"
ReqIds == {"request1", "request2"}
\* Client callbacks: a plain spy and one that throws when invoked
\* (onResultSpy1 of "should tolerate callback failures").
Callbacks == {"spy", "thrower"}
Thrower(callback) == callback = "thrower"
\* open()'s target: "_top" opens in redirect mode, anything else as a popup.
Targets == {"_blank", "_top"}

\* win.location.hash at construction: empty, a fragment without a readable
\* result, or "#__WA_RES__=" followed by the result tagged with a requestId.
NoFragment == [kind |-> "empty", requestId |-> Null]
JunkFragment == [kind |-> "junk", requestId |-> Null]
ResultFragment(r) == [kind |-> "result", requestId |-> r]
Fragments == {NoFragment, JunkFragment} \cup {ResultFragment(r) : r \in ReqIds}

\* A port object: the ActivityWindowPort number id created by open(), or the
\* redirect port (id 0) that discoverRedirectPort builds from the fragment.
NoPort == [id |-> 0, requestId |-> Null, kind |-> "none"]
WindowPort(id, r) == [id |-> id, requestId |-> r, kind |-> "window"]
RedirectPort(r) == [id |-> 0, requestId |-> r, kind |-> "redirect"]
IsPort(port) == port.kind # "none"

VARIABLES
    fragment_,          \* this.fragment_
    requestHandlers_,   \* this.requestHandlers_: requestId -> callbacks in order
    resultBuffer_,      \* this.resultBuffer_: requestId -> port or NoPort
    ports,              \* the window ports open() created, with their acceptResult promise
    microtasks,         \* the page's microtask queue (promise reactions), FIFO
    calls,              \* history: per requestId, the invocations of its callbacks in order
    regAvail,           \* history: per registration, was a result available in onResult
    win,                \* this.win_: the window facts connectHost reads
    hash,               \* win.location.hash, the page's current fragment
    hostCalls,          \* the calls of connectHost(), with the host's connect() promise
    iframeCalls         \* the calls of openIframe(), with the port's connect() promise

managerVars == <<fragment_, requestHandlers_, resultBuffer_, ports, microtasks, calls, regAvail>>
envVars == <<win, hash, hostCalls, iframeCalls>>
vars == <<fragment_, requestHandlers_, resultBuffer_, ports, microtasks, calls, regAvail,
          win, hash, hostCalls, iframeCalls>>

\* The manager's mutable state handed through the private methods.
State == [requestHandlers |-> requestHandlers_, resultBuffer |-> resultBuffer_,
          microtasks |-> microtasks, calls |-> calls]

\* A registration: callback `cb`, the reg-th entry of requestHandlers_[req].
Handler(req, reg, cb) == [req |-> req, reg |-> reg, cb |-> cb]

AcceptTask(port) == [type |-> "accept", port |-> port, handler |-> Handler(Null, 0, Null)]
CallTask(port, handler) == [type |-> "call", port |-> port, handler |-> handler]
\* One invocation callback(port); threw: the callback raised an exception.
Call(port, handler) == [port |-> port, handler |-> handler, threw |-> Thrower(handler.cb)]

\* The window: is win.top the window itself, and its opener (null, an open
\* window, or a window that was closed).
Window(top, opener) == [top |-> top, opener |-> opener]
Windows == {Window(top, opener) : top \in {"self", "other"}, opener \in {"null", "open", "closed"}}

\* ------------------------------------------------------------ construction
\* new Activities(win): the fragment is the page's hash at that moment.
Constructed(fragments) ==
    /\ fragment_ \in fragments
    /\ hash = fragment_
    /\ requestHandlers_ = [r \in ReqIds |-> <<>>]
    /\ resultBuffer_ = [r \in ReqIds |-> NoPort]
    /\ ports = <<>>
    /\ microtasks = <<>>
    /\ calls = [r \in ReqIds |-> <<>>]
    /\ regAvail = [r \in ReqIds |-> <<>>]
    /\ hostCalls = <<>>
    /\ iframeCalls = <<>>

\* The client page: a top-level window that nobody opened.
Init ==
    /\ Constructed(Fragments)
    /\ win = Window("self", "null")

\* ------------------------------------------------------- private methods
\* discoverRedirectPort(win, fragment, requestId) of activity-window-port:
\* a port built from the fragment's result payload when the payload parses
\* and is tagged with requestId; nothing otherwise.
DiscoverRedirectPort(fragment, requestId) ==
    IF fragment.kind = "result" /\ fragment.requestId = requestId
    THEN RedirectPort(fragment.requestId)
    ELSE NoPort

\* Faulty variant: takes the fragment's result without matching its requestId.
DiscoverResultUnmatched(st, fragment, requestId) ==
    LET buffered == st.resultBuffer[requestId]
        found == IF buffered = NoPort /\ fragment.kind = "result"
                 THEN DiscoverRedirectPort(fragment, fragment.requestId)
                 ELSE buffered
    IN [port |-> found,
        st |-> IF buffered = NoPort /\ found # NoPort
               THEN [st EXCEPT !.resultBuffer[requestId] = found]
               ELSE st]

\* Faulty variant: reads the fragment before the buffer.
DiscoverResultFragmentFirst(st, fragment, requestId) ==
    LET buffered == st.resultBuffer[requestId]
        parsed == DiscoverRedirectPort(fragment, requestId)
        found == IF parsed # NoPort THEN parsed ELSE buffered
    IN [port |-> found,
        st |-> IF parsed # NoPort
               THEN [st EXCEPT !.resultBuffer[requestId] = found]
               ELSE st]

\* Faulty variant: returns the fragment's port without storing it.
DiscoverResultUnstored(st, fragment, requestId) ==
    LET buffered == st.resultBuffer[requestId]
        found == IF buffered = NoPort /\ fragment.kind # "empty"
                 THEN DiscoverRedirectPort(fragment, requestId)
                 ELSE buffered
    IN [port |-> found, st |-> st]

\* discoverResult_(requestId): the port found and the buffer afterwards.
DiscoverResult(st, fragment, requestId) ==
    LET buffered == st.resultBuffer[requestId]
        found == IF buffered = NoPort /\ fragment.kind # "empty"
                 THEN DiscoverRedirectPort(fragment, requestId)
                 ELSE buffered
    IN [port |-> found,
        st |-> IF buffered = NoPort /\ found # NoPort
               THEN [st EXCEPT !.resultBuffer[requestId] = found]
               ELSE st]

\* Faulty variant: calls the callback at once instead of deferring it.
ConsumeResultSync(st, port, handler) ==
    [st EXCEPT !.calls[handler.req] = Append(@, Call(port, handler))]

\* consumeResult_(port, callback): the call is a promise reaction, queued.
ConsumeResult(st, port, handler) ==
    [st EXCEPT !.microtasks = Append(@, CallTask(port, handler))]

\* Faulty variant: walks the handlers from the last one down.
RECURSIVE ForEachHandlerReversed(_, _, _, _)
ForEachHandlerReversed(st, requestId, port, i) ==
    LET n == Len(st.requestHandlers[requestId])
    IN IF i > n
       THEN st
       ELSE ForEachHandlerReversed(
               ConsumeResult(st, port,
                   Handler(requestId, n + 1 - i, st.requestHandlers[requestId][n + 1 - i])),
               requestId, port, i + 1)

\* handlers.forEach(handler => this.consumeResult_(port, handler)), from i on.
RECURSIVE ForEachHandler(_, _, _, _)
ForEachHandler(st, requestId, port, i) ==
    IF i > Len(st.requestHandlers[requestId])
    THEN st
    ELSE ForEachHandler(
            ConsumeResult(st, port, Handler(requestId, i, st.requestHandlers[requestId][i])),
            requestId, port, i + 1)

\* Faulty variant: calls the handlers inside forEach, so that the first one
\* that throws ends the loop and the method.
RECURSIVE CallEachHandler(_, _, _, _)
CallEachHandler(st, requestId, port, i) ==
    IF i > Len(st.requestHandlers[requestId])
    THEN [st EXCEPT !.resultBuffer[requestId] = port]
    ELSE LET handler == Handler(requestId, i, st.requestHandlers[requestId][i])
             called == ConsumeResultSync(st, port, handler)
         IN IF Thrower(handler.cb) THEN called
            ELSE CallEachHandler(called, requestId, port, i + 1)

ConsumeResultAllAborting(st, requestId, port) ==
    CallEachHandler(st, requestId, port, 1)

\* Faulty variant: keeps the port only while nobody has consumed it.
ConsumeResultAllClearing(st, requestId, port) ==
    [ForEachHandler(st, requestId, port, 1) EXCEPT !.resultBuffer[requestId] =
        IF Len(st.requestHandlers[requestId]) > 0 THEN NoPort ELSE port]

\* Faulty variant: dispatches to the handlers of every requestId.
ConsumeResultAllEveryRequest(st, requestId, port) ==
    [ForEachHandler(ForEachHandler(st, "request1", port, 1), "request2", port, 1)
        EXCEPT !.resultBuffer[requestId] = port]

\* Faulty variant: buffers the port inside the if (handlers) block.
ConsumeResultAllBufferIfHandlers(st, requestId, port) ==
    IF Len(st.requestHandlers[requestId]) > 0
    THEN [ForEachHandler(st, requestId, port, 1) EXCEPT !.resultBuffer[requestId] = port]
    ELSE st

\* Faulty variant: dispatches to the registered handlers and forgets the port.
ConsumeResultAllUnbuffered(st, requestId, port) ==
    ForEachHandler(st, requestId, port, 1)

\* consumeResultAll_(requestId, port)
ConsumeResultAll(st, requestId, port) ==
    [ForEachHandler(st, requestId, port, 1) EXCEPT !.resultBuffer[requestId] = port]

\* Faulty variant: an available result is dispatched to every handler again.
OnResultStateAll(st, fragment, requestId, callback) ==
    LET pushed == [st EXCEPT !.requestHandlers[requestId] = Append(@, callback)]
        available == DiscoverResult(pushed, fragment, requestId)
    IN IF available.port # NoPort
       THEN ForEachHandler(available.st, requestId, available.port, 1)
       ELSE available.st

\* Faulty variant: an available result goes to the first handler of the list.
OnResultStateFirst(st, fragment, requestId, callback) ==
    LET pushed == [st EXCEPT !.requestHandlers[requestId] = Append(@, callback)]
        available == DiscoverResult(pushed, fragment, requestId)
    IN IF available.port # NoPort
       THEN ConsumeResult(available.st, available.port,
                Handler(requestId, 1, pushed.requestHandlers[requestId][1]))
       ELSE available.st

\* Faulty variant: looks for the fragment's result whatever requestId is asked.
OnResultStateAnyResult(st, fragment, requestId, callback) ==
    LET pushed == [st EXCEPT !.requestHandlers[requestId] = Append(@, callback)]
        reg == Len(pushed.requestHandlers[requestId])
        asked == IF fragment.kind = "result" THEN fragment.requestId ELSE requestId
        available == DiscoverResult(pushed, fragment, asked)
    IN IF available.port # NoPort
       THEN ConsumeResult(available.st, available.port, Handler(requestId, reg, callback))
       ELSE available.st

\* Faulty variant: keeps the callback only when it can be served at once.
OnResultStateServedOnly(st, fragment, requestId, callback) ==
    LET available == DiscoverResult(st, fragment, requestId)
        reg == Len(st.requestHandlers[requestId]) + 1
    IN IF available.port # NoPort
       THEN ConsumeResult([available.st EXCEPT !.requestHandlers[requestId] = Append(@, callback)],
                          available.port, Handler(requestId, reg, callback))
       ELSE available.st

\* onResult(requestId, callback), on the manager's state
OnResultState(st, fragment, requestId, callback) ==
    LET pushed == [st EXCEPT !.requestHandlers[requestId] = Append(@, callback)]
        reg == Len(pushed.requestHandlers[requestId])
        available == DiscoverResult(pushed, fragment, requestId)
    IN IF available.port # NoPort
       THEN ConsumeResult(available.st, available.port, Handler(requestId, reg, callback))
       ELSE available.st

Commit(st) ==
    /\ requestHandlers_' = st.requestHandlers
    /\ resultBuffer_' = st.resultBuffer
    /\ microtasks' = st.microtasks
    /\ calls' = st.calls

\* ------------------------------------------------------------- operations
NumRegs == Len(requestHandlers_["request1"]) + Len(requestHandlers_["request2"])

\* Faulty variant: reads the page's current hash instead of the snapshot.
OnResultLiveHash(requestId, callback) ==
    /\ NumRegs < MaxRegs
    /\ NumRegs + Len(ports) < MaxApiCalls
    /\ Commit(OnResultState(State, hash, requestId, callback))
    /\ regAvail' = [regAvail EXCEPT ![requestId] =
                        Append(@, DiscoverResult(State, hash, requestId).port # NoPort)]
    /\ UNCHANGED <<fragment_, ports>>
    /\ UNCHANGED envVars

OnResult(requestId, callback) ==
    /\ NumRegs < MaxRegs
    /\ NumRegs + Len(ports) < MaxApiCalls
    /\ Commit(OnResultState(State, fragment_, requestId, callback))
    /\ regAvail' = [regAvail EXCEPT ![requestId] =
                        Append(@, DiscoverResult(State, fragment_, requestId).port # NoPort)]
    /\ UNCHANGED <<fragment_, ports>>
    /\ UNCHANGED envVars

\* Faulty variant: dispatches the port without awaiting acceptResult().
OpenDispatchingAtOnce(requestId, target) ==
    /\ Len(ports) < MaxOpens
    /\ NumRegs + Len(ports) < MaxApiCalls
    /\ ports' = Append(ports, [requestId |-> requestId, target |-> target, accept |-> "pending"])
    /\ Commit(ConsumeResultAll(State, requestId, WindowPort(Len(ports) + 1, requestId)))
    /\ UNCHANGED <<fragment_, regAvail>>
    /\ UNCHANGED envVars

\* open(requestId, url, target): a new port; acceptResult() is pending and
\* its reaction runs consumeResultAll_ once it resolves.
Open(requestId, target) ==
    /\ Len(ports) < MaxOpens
    /\ NumRegs + Len(ports) < MaxApiCalls
    /\ ports' = Append(ports, [requestId |-> requestId, target |-> target, accept |-> "pending"])
    /\ UNCHANGED <<fragment_, requestHandlers_, resultBuffer_, microtasks, calls, regAvail>>
    /\ UNCHANGED envVars

\* Faulty variant: the reaction of open() also runs on rejection.
OpenReactionAlways(outcome, port) == <<AcceptTask(port)>>

\* port.acceptResult().then(() => consumeResultAll_(requestId, port)): the
\* reactions queued when the promise settles; only fulfilment has one.
OpenReaction(outcome, port) ==
    IF outcome = "resolved" THEN <<AcceptTask(port)>> ELSE <<>>

\* The popup delivers its result: the acceptResult() promise of port id
\* resolves and its reaction is queued. A redirect-mode port never resolves.
AcceptResultResolves(id) ==
    /\ ports[id].accept = "pending"
    /\ ports[id].target # "_top"
    /\ ports' = [ports EXCEPT ![id].accept = "resolved"]
    /\ microtasks' = microtasks \o OpenReaction("resolved", WindowPort(id, ports[id].requestId))
    /\ UNCHANGED <<fragment_, requestHandlers_, resultBuffer_, calls, regAvail>>
    /\ UNCHANGED envVars

\* The acceptResult() promise rejects: open() attached no rejection handler.
AcceptResultRejects(id) ==
    /\ ports[id].accept = "pending"
    /\ ports[id].target # "_top"
    /\ ports' = [ports EXCEPT ![id].accept = "rejected"]
    /\ microtasks' = microtasks \o OpenReaction("rejected", WindowPort(id, ports[id].requestId))
    /\ UNCHANGED <<fragment_, requestHandlers_, resultBuffer_, calls, regAvail>>
    /\ UNCHANGED envVars

\* The reaction of open(): () => this.consumeResultAll_(requestId, port)
RunAccept ==
    /\ microtasks # <<>>
    /\ Head(microtasks).type = "accept"
    /\ LET port == Head(microtasks).port
       IN Commit(ConsumeResultAll([State EXCEPT !.microtasks = Tail(@)], port.requestId, port))
    /\ UNCHANGED <<fragment_, ports, regAvail>>
    /\ UNCHANGED envVars

\* The reaction of consumeResult_(): () => callback(port). A callback that
\* throws rejects the reaction's own promise and nothing else.
RunCallback ==
    /\ microtasks # <<>>
    /\ Head(microtasks).type = "call"
    /\ microtasks' = Tail(microtasks)
    /\ calls' = [calls EXCEPT ![Head(microtasks).handler.req] =
                    Append(@, Call(Head(microtasks).port, Head(microtasks).handler))]
    /\ UNCHANGED <<fragment_, requestHandlers_, resultBuffer_, ports, regAvail>>
    /\ UNCHANGED envVars

RunMicrotask == RunAccept \/ RunCallback

Next ==
    \/ \E r \in ReqIds, cb \in Callbacks : OnResult(r, cb)
    \/ \E r \in ReqIds, t \in Targets : Open(r, t)
    \/ \E id \in 1..Len(ports) : AcceptResultResolves(id)
    \/ \E id \in 1..Len(ports) : AcceptResultRejects(id)
    \/ RunAccept
    \/ RunCallback

Spec == Init /\ [][Next]_vars

\* The event loop always drains the microtask queue.
FairSpec == Spec /\ WF_vars(RunMicrotask)

\* The page's URL fragment changes after the manager was constructed.
SetHash(fragment) ==
    /\ fragment # hash
    /\ hash' = fragment
    /\ UNCHANGED <<managerVars, win, hostCalls, iframeCalls>>

\* The manager on a page whose hash changes under it; the opened activities
\* of this specification all return a result.
HashNext ==
    \/ \E fragment \in Fragments : SetHash(fragment)
    \/ \E r \in ReqIds, cb \in Callbacks : OnResult(r, cb)
    \/ \E r \in ReqIds, t \in Targets : Open(r, t)
    \/ \E id \in 1..Len(ports) : AcceptResultResolves(id)
    \/ RunAccept
    \/ RunCallback

HashSpec == Init /\ [][HashNext]_vars

\* ------------------------------------------------------------ connectHost
\* A promise's state: pending, resolved with a value or rejected with an error.
Pending == [state |-> "pending", value |-> Null]
Resolved(value) == [state |-> "resolved", value |-> value]
Rejected(error) == [state |-> "rejected", value |-> error]

\* connectHost(opt_request): no request, or the request of the caller.
Requests == {"undefined", "request"}
\* What a host's connect() resolves to: the host itself or another host.
ConnectValues == {"initialHost", "other"}
\* How a host's or a port's connect() can settle.
HostOutcomes == {Resolved(v) : v \in ConnectValues} \cup {Rejected("intentional")}

\* Faulty variant: looks at the opener before looking at win.top.
SelectHostOpenerFirst(w) ==
    IF w.opener # "null" /\ w.opener # "closed" THEN "popup"
    ELSE IF w.top # "self" THEN "iframe"
    ELSE "redirect"

\* The if / else if / else of connectHost: the host class constructed.
SelectHost(w) ==
    IF w.top # "self" THEN "iframe"
    ELSE IF w.opener # "null" /\ w.opener # "closed" THEN "popup"
    ELSE "redirect"

\* Faulty variant: connects the host and resolves with the host itself.
ConnectHostReturnedWrapped(outcome) ==
    IF outcome.state = "resolved" THEN Resolved("initialHost") ELSE outcome

\* return host.connect(opt_request): the caller holds connect()'s promise.
ConnectHostReturned(outcome) == outcome

\* connectHost(opt_request) in window w: the hosts constructed, the
\* arguments of their connect() calls, connect()'s promise and the promise
\* handed to the caller.
ConnectHostCall(w, request) ==
    [win |-> w, asked |-> request,
     constructed |-> <<SelectHost(w)>>,
     connects |-> <<request>>,
     connect |-> Pending,
     returned |-> ConnectHostReturned(Pending)]

ConnectHost(request) ==
    /\ Len(hostCalls) < MaxHostCalls
    /\ hostCalls' = Append(hostCalls, ConnectHostCall(win, request))
    /\ UNCHANGED <<managerVars, win, hash, iframeCalls>>

\* The host's connect() promise of the i-th call settles.
HostConnectSettles(i, outcome) ==
    /\ hostCalls[i].connect = Pending
    /\ hostCalls' = [hostCalls EXCEPT ![i].connect = outcome,
                                      ![i].returned = ConnectHostReturned(outcome)]
    /\ UNCHANGED <<managerVars, win, hash, iframeCalls>>

\* The page's window relations change: win.top, win.opener are read at each call.
SetWindow(w) ==
    /\ w # win
    /\ win' = w
    /\ UNCHANGED <<managerVars, hash, hostCalls, iframeCalls>>

HostInit ==
    /\ Constructed({NoFragment})
    /\ win \in Windows

HostNext ==
    \/ \E request \in Requests : ConnectHost(request)
    \/ \E i \in 1..Len(hostCalls), outcome \in HostOutcomes : HostConnectSettles(i, outcome)
    \/ \E w \in Windows : SetWindow(w)

HostSpec == HostInit /\ [][HostNext]_vars

\* ------------------------------------------------------------- openIframe
\* Faulty variant: hands out the port whether connect() resolved or rejected.
OpenIframeReturnedAlways(outcome, port) ==
    IF outcome.state = "pending" THEN Pending ELSE Resolved(port)

\* port.connect().then(() => port): the promise openIframe returns, once
\* the reaction to connect()'s outcome has run.
OpenIframeReturned(outcome, port) ==
    IF outcome.state = "resolved" THEN Resolved(port) ELSE outcome

\* The n-th ActivityIframePort.
IframePort(n) == [id |-> n, requestId |-> Null, kind |-> "iframe"]

\* openIframe(iframe, url, args): the new port, the calls of its connect(),
\* connect()'s promise and the promise handed to the caller.
OpenIframeCall(n) ==
    [port |-> IframePort(n),
     connects |-> 1,
     connect |-> Pending,
     returned |-> Pending]

OpenIframe ==
    /\ Len(iframeCalls) < MaxIframeCalls
    /\ iframeCalls' = Append(iframeCalls, OpenIframeCall(Len(iframeCalls) + 1))
    /\ UNCHANGED <<managerVars, win, hash, hostCalls>>

\* The port's connect() promise of the i-th call settles; the reaction
\* () => port is queued behind it.
IframeConnectSettles(i, outcome) ==
    /\ iframeCalls[i].connect = Pending
    /\ iframeCalls' = [iframeCalls EXCEPT ![i].connect = outcome]
    /\ UNCHANGED <<managerVars, win, hash, hostCalls>>

\* The reaction runs and settles the promise openIframe returned.
IframeReaction(i) ==
    /\ iframeCalls[i].connect # Pending
    /\ iframeCalls[i].returned = Pending
    /\ iframeCalls' = [iframeCalls EXCEPT ![i].returned =
                            OpenIframeReturned(iframeCalls[i].connect, iframeCalls[i].port)]
    /\ UNCHANGED <<managerVars, win, hash, hostCalls>>

IframeInit ==
    /\ Constructed({NoFragment})
    /\ win = Window("self", "null")

IframeNext ==
    \/ OpenIframe
    \/ \E i \in 1..Len(iframeCalls), outcome \in HostOutcomes : IframeConnectSettles(i, outcome)
    \/ \E i \in 1..Len(iframeCalls) : IframeReaction(i)

IframeSpec == IframeInit /\ [][IframeNext]_vars

\* ------------------------------------------------------ history operators
RegsOf(r) == 1..Len(requestHandlers_[r])

\* The invocations so far of the reg-th registration of r.
InvocationsOf(r, reg) == {i \in 1..Len(calls[r]) : calls[r][i].handler.reg = reg}

\* The results that exist for r: one per port opened with r whose
\* acceptResult() resolved, and one if the captured fragment is tagged r.
ResolvedPorts(r) == {id \in 1..Len(ports) : ports[id].requestId = r /\ ports[id].accept = "resolved"}
NumResults(r) == Cardinality(ResolvedPorts(r)) + (IF fragment_ = ResultFragment(r) THEN 1 ELSE 0)

\* Every invocation of a callback registered under r got the same port object.
SamePort(r) == \A i, j \in 1..Len(calls[r]) : calls[r][i].port = calls[r][j].port

\* ------------------------------------------------------------------ claims
\* C1: with a single result for requestId r, every registration made with
\* onResult(r, .), before or after the result is dispatched, is eventually
\* invoked, never more than once, and all of them receive the same port.
\* (Registrations and results are never withdrawn, so "again and again every
\* registration that has a result has been invoked" says each one is.)
C1_EachInvokedOnceSamePort ==
    /\ [](\A r \in ReqIds : NumResults(r) <= 1 =>
            /\ \A reg \in RegsOf(r) : Cardinality(InvocationsOf(r, reg)) <= 1
            /\ SamePort(r))
    /\ []<>(\A r \in ReqIds : NumResults(r) >= 1 =>
                \A reg \in RegsOf(r) : InvocationsOf(r, reg) # {})

\* One open result, callbacks registered before and after its dispatch, all
\* of them invoked once with the opened port.
C1_Witness ==
    \E r \in ReqIds :
        /\ NumResults(r) = 1 /\ ResolvedPorts(r) # {}
        /\ \E a, b \in RegsOf(r) : ~regAvail[r][a] /\ regAvail[r][b]
        /\ \A reg \in RegsOf(r) : Cardinality(InvocationsOf(r, reg)) = 1
        /\ SamePort(r)
        /\ \A i \in 1..Len(calls[r]) : calls[r][i].port.kind = "window"

\* C2 as stated: each registration is invoked at most once, also when more
\* than one result arrives for its requestId.
C2_InvokedAtMostOnce ==
    \A r \in ReqIds : \A reg \in RegsOf(r) : Cardinality(InvocationsOf(r, reg)) <= 1

\* C2 amended: each registration is invoked at most once with a given port;
\* it is invoked once more for every further result of its requestId.
C2_InvokedAtMostOncePerPort ==
    \A r \in ReqIds : \A i, j \in 1..Len(calls[r]) :
        (i # j /\ calls[r][i].handler.reg = calls[r][j].handler.reg)
            => calls[r][i].port # calls[r][j].port

\* A registration invoked for the results of two opens of its requestId, and
\* one invoked for a fragment result and then for an open result.
C2_Witness ==
    \E r \in ReqIds : \E reg \in RegsOf(r) : \E i, j \in InvocationsOf(r, reg) :
        /\ i < j
        /\ calls[r][i].port.kind = "window"
        /\ calls[r][j].port.kind = "window"

C2_WitnessFragmentThenOpen ==
    \E r \in ReqIds : \E reg \in RegsOf(r) : \E i, j \in InvocationsOf(r, reg) :
        /\ i < j
        /\ calls[r][i].port.kind = "redirect"
        /\ calls[r][j].port.kind = "window"

\* C3 as stated: a port stored in resultBuffer_ is never replaced.
C3_NeverOverwritten ==
    [][\A r \in ReqIds :
        IsPort(resultBuffer_[r]) => resultBuffer_'[r] = resultBuffer_[r]]_vars

\* The step is the reaction of open() for a port opened with r.
IsAcceptStep(r) ==
    /\ microtasks # <<>>
    /\ Head(microtasks).type = "accept"
    /\ Head(microtasks).port.requestId = r

\* C3 amended: a stored port is replaced only by the port of a later result
\* that arrives through open for the same requestId; onResult and
\* discoverResult_ never replace a stored port.
C3_OverwrittenOnlyByOpenResult ==
    [][\A r \in ReqIds :
        (IsPort(resultBuffer_[r]) /\ resultBuffer_'[r] # resultBuffer_[r])
            => /\ IsAcceptStep(r)
               /\ resultBuffer_'[r] = Head(microtasks).port
               /\ requestHandlers_' = requestHandlers_]_vars

\* The fragment's port was stored and delivered, an open result replaced it,
\* and an onResult after that was served from the buffer.
C3_Witness ==
    \E r \in ReqIds :
        /\ fragment_ = ResultFragment(r)
        /\ resultBuffer_[r].kind = "window"
        /\ \E i \in 1..Len(calls[r]) : calls[r][i].port = RedirectPort(r)
        /\ \E reg \in RegsOf(r) : \E i \in InvocationsOf(r, reg) :
              /\ regAvail[r][reg]
              /\ calls[r][i].port = resultBuffer_[r]

\* The step calls a callback: it is the reaction consumeResult_ queued.
IsCallbackStep ==
    /\ microtasks # <<>>
    /\ Head(microtasks).type = "call"
    /\ microtasks' = Tail(microtasks)
    /\ LET h == Head(microtasks).handler
       IN calls' = [calls EXCEPT ![h.req] = Append(@, Call(Head(microtasks).port, h))]

\* C4: no callback runs inside onResult (the step that registers a handler)
\* nor inside the dispatch of an arrived result; every invocation is a
\* microtask of its own, queued by an earlier step.
C4_NeverSynchronous ==
    [][/\ (requestHandlers_' # requestHandlers_ => calls' = calls)
       /\ ((microtasks # <<>> /\ Head(microtasks).type = "accept") => calls' = calls)
       /\ (calls' # calls => IsCallbackStep)]_vars

\* onResult found a buffered result, and one found it in the fragment; the
\* callback is queued and has not run.
C4_Witness ==
    /\ \E r \in ReqIds : \E reg \in RegsOf(r) :
          /\ regAvail[r][reg] /\ resultBuffer_[r].kind = "window"
          /\ InvocationsOf(r, reg) = {}
          /\ \E k \in 1..Len(microtasks) :
                microtasks[k].type = "call" /\ microtasks[k].handler = Handler(r, reg, requestHandlers_[r][reg])
    /\ \E r \in ReqIds : \E reg \in RegsOf(r) :
          /\ regAvail[r][reg] /\ resultBuffer_[r].kind = "redirect"
          /\ InvocationsOf(r, reg) = {}

\* C5: for one result of a requestId, the callbacks registered before its
\* dispatch are invoked before those registered after it, and inside each
\* batch in registration order.
C5_TwoOrderedBatches ==
    \A r \in ReqIds : NumResults(r) <= 1 =>
        \A i, j \in 1..Len(calls[r]) : i < j =>
            LET a == calls[r][i].handler.reg
                b == calls[r][j].handler.reg
            IN /\ regAvail[r][a] => regAvail[r][b]
               /\ regAvail[r][a] = regAvail[r][b] => a < b

\* Two callbacks registered before the dispatch and one after, all invoked.
C5_Witness ==
    \E r \in ReqIds :
        /\ NumResults(r) = 1
        /\ Len(requestHandlers_[r]) = 3
        /\ regAvail[r] = <<FALSE, FALSE, TRUE>>
        /\ Len(calls[r]) = 3

\* A result is available to onResult(r, .): buffered, or in the fragment.
AvailablePort(r) ==
    IF IsPort(resultBuffer_[r]) THEN resultBuffer_[r]
    ELSE IF fragment_ = ResultFragment(r) THEN RedirectPort(r)
    ELSE NoPort

\* The step is a call onResult(r, .): it appends one handler to r's list.
IsOnResultStep(r) == Len(requestHandlers_'[r]) = Len(requestHandlers_[r]) + 1

\* The registration that the onResult(r, .) step adds.
NewHandler(r) ==
    Handler(r, Len(requestHandlers_'[r]), requestHandlers_'[r][Len(requestHandlers_'[r])])

RegsOfCallback(r, cb) == {reg \in RegsOf(r) : requestHandlers_[r][reg] = cb}
CallsOfCallback(r, cb) == {i \in 1..Len(calls[r]) : calls[r][i].handler.cb = cb}

\* C6: an onResult(r, cb) made while a result for r is available queues
\* exactly one invocation, of the handler it registered with the available
\* port, and nothing for the handlers registered earlier; so with a single
\* result a callback registered k times is invoked at most k times, and
\* exactly k times once the microtask queue has drained.
C6_OneDeliveryPerRegistration ==
    /\ [][\A r \in ReqIds :
            (IsOnResultStep(r) /\ IsPort(AvailablePort(r)))
                => microtasks' = Append(microtasks, CallTask(AvailablePort(r), NewHandler(r)))]_vars
    /\ [](\A r \in ReqIds : \A cb \in Callbacks :
            NumResults(r) = 1 =>
                /\ Cardinality(CallsOfCallback(r, cb)) <= Cardinality(RegsOfCallback(r, cb))
                /\ microtasks = <<>> =>
                      Cardinality(CallsOfCallback(r, cb)) = Cardinality(RegsOfCallback(r, cb)))

\* The same callback registered twice while a result was available, and
\* invoked twice.
C6_Witness ==
    \E r \in ReqIds : \E cb \in Callbacks : \E a, b \in RegsOfCallback(r, cb) :
        /\ NumResults(r) = 1
        /\ a # b /\ regAvail[r][a] /\ regAvail[r][b]
        /\ Cardinality(RegsOfCallback(r, cb)) = 2
        /\ Cardinality(CallsOfCallback(r, cb)) = 2
        /\ microtasks = <<>>

\* C7: the port built from a fragment result tagged X is only ever delivered
\* to callbacks registered under X.
C7_FragmentResultOnlyToItsRequest ==
    \A r \in ReqIds :
        /\ \A i \in 1..Len(calls[r]) :
              calls[r][i].port.kind = "redirect" =>
                  fragment_ = ResultFragment(r) /\ calls[r][i].port.requestId = r
        /\ \A k \in 1..Len(microtasks) :
              (microtasks[k].type = "call" /\ microtasks[k].port.kind = "redirect") =>
                  microtasks[k].port.requestId = microtasks[k].handler.req

\* Callbacks registered under X and under Y; the
\* fragment is tagged X, X's callback got the port and Y's was not called.
C7_Witness ==
    \E x, y \in ReqIds :
        /\ x # y
        /\ fragment_ = ResultFragment(x)
        /\ requestHandlers_[y] # <<>> /\ requestHandlers_[x] # <<>>
        /\ calls[y] = <<>>
        /\ calls[x] # <<>> /\ calls[x][1].port = RedirectPort(x)
        /\ microtasks = <<>>

\* C8: onResult(Y, .) with a fragment result tagged X # Y changes neither
\* the result buffer nor the captured fragment, and queues nothing unless a
\* result for Y is buffered; an onResult(X, cb) made afterwards still finds
\* the fragment result, buffers it and queues its delivery to cb.
C8_NonMatchingFragmentNotConsumed ==
    [][\A x, y \in ReqIds :
        (x # y /\ fragment_ = ResultFragment(x)) =>
            /\ IsOnResultStep(y) =>
                  /\ resultBuffer_' = resultBuffer_
                  /\ fragment_' = fragment_
                  /\ ~IsPort(resultBuffer_[y]) => microtasks' = microtasks
            /\ (IsOnResultStep(x) /\ ~IsPort(resultBuffer_[x]) /\ requestHandlers_[y] # <<>>) =>
                  /\ resultBuffer_' = [resultBuffer_ EXCEPT ![x] = RedirectPort(x)]
                  /\ microtasks' = Append(microtasks, CallTask(RedirectPort(x), NewHandler(x)))]_vars

\* onResult(Y, .) came first and found nothing; the later onResult(X, .)
\* discovered the fragment result and its callback was invoked with it.
C8_Witness ==
    \E x, y \in ReqIds :
        /\ x # y
        /\ fragment_ = ResultFragment(x)
        /\ requestHandlers_[y] # <<>> /\ ~regAvail[y][1]
        /\ ~IsPort(resultBuffer_[y])
        /\ resultBuffer_[x] = RedirectPort(x)
        /\ \E i \in 1..Len(calls[x]) : calls[x][i].port = RedirectPort(x)

\* The window ports of r whose result consumeResultAll_ has dispatched.
DispatchedPorts(r) ==
    {id \in ResolvedPorts(r) :
        \A k \in 1..Len(microtasks) :
            ~(microtasks[k].type = "accept" /\ microtasks[k].port = WindowPort(id, r))}

\* A callback registered for r threw when it was invoked.
SomeCallbackThrew(r) == \E i \in 1..Len(calls[r]) : calls[r][i].threw

\* C9: after a callback of r threw, the buffer still holds a port for r,
\* the calls queued for the other callbacks stay queued, and once the queue
\* has drained every callback registered for that result, before or after
\* the throw, was invoked exactly once.
C9_ThrowingCallbackIsIsolated ==
    /\ [](\A r \in ReqIds : SomeCallbackThrew(r) =>
            /\ IsPort(resultBuffer_[r])
            /\ (microtasks = <<>> /\ NumResults(r) = 1) =>
                  \A reg \in RegsOf(r) : Cardinality(InvocationsOf(r, reg)) = 1)
    /\ [][(microtasks # <<>> /\ Head(microtasks).type = "call"
            /\ Thrower(Head(microtasks).handler.cb) /\ calls' # calls)
                => /\ microtasks' = Tail(microtasks)
                   /\ resultBuffer_' = resultBuffer_
                   /\ requestHandlers_' = requestHandlers_]_vars

\* The first callback of r threw; its sibling and a callback registered
\* after the throw were both invoked with the same port.
C9_Witness ==
    \E r \in ReqIds :
        /\ NumResults(r) = 1
        /\ Len(calls[r]) = 3
        /\ calls[r][1].threw /\ ~calls[r][2].threw /\ ~calls[r][3].threw
        /\ regAvail[r] = <<FALSE, FALSE, TRUE>>
        /\ calls[r][2].port = calls[r][1].port
        /\ calls[r][3].port = calls[r][1].port

\* C10: no step removes an entry of the result buffer, and there is an
\* entry for r as soon as a result for r was discovered in the fragment by
\* onResult or dispatched for a port opened with r.
C10_BufferEntryRetained ==
    /\ [][\A r \in ReqIds : IsPort(resultBuffer_[r]) => IsPort(resultBuffer_'[r])]_vars
    /\ [](\A r \in ReqIds :
            ((fragment_ = ResultFragment(r) /\ requestHandlers_[r] # <<>>)
                \/ DispatchedPorts(r) # {})
            => IsPort(resultBuffer_[r]))

\* Results of both kinds are buffered and every later operation has run:
\* a discovered fragment result, and an open result with its callbacks
\* invoked and the queue drained.
C10_Witness ==
    \E x, y \in ReqIds :
        /\ x # y
        /\ resultBuffer_[x] = RedirectPort(x) /\ calls[x] # <<>>
        /\ resultBuffer_[y].kind = "window" /\ calls[y] # <<>>
        /\ microtasks = <<>>

\* The call tasks that consumeResultAll_(r, port) queues: one per handler
\* registered under r, in registration order.
DispatchOf(r, port) ==
    [reg \in RegsOf(r) |-> CallTask(port, Handler(r, reg, requestHandlers_[r][reg]))]

\* The step runs the reaction of open() for a port opened with r: the head
\* of the queue is that reaction and the step is no API call and no promise
\* settling.
IsDispatchStep(r) ==
    /\ IsAcceptStep(r)
    /\ requestHandlers_' = requestHandlers_
    /\ ports' = ports
    /\ microtasks' # microtasks

\* C11: a callback registered under r only ever receives a port whose
\* requestId is r; the result that arrives for r is dispatched to every
\* callback registered for r and to none of another requestId, and the
\* buffer entries of the other requestIds stay as they are.
C11_ResultsReachOnlyTheirRequest ==
    /\ [](\A r \in ReqIds : \A i \in 1..Len(calls[r]) : calls[r][i].port.requestId = r)
    /\ [][\A r \in ReqIds :
            IsDispatchStep(r)
                => /\ microtasks' = Tail(microtasks) \o DispatchOf(r, Head(microtasks).port)
                   /\ \A q \in ReqIds \ {r} : resultBuffer_'[q] = resultBuffer_[q]]_vars

\* Two activities opened under different requestIds, the second result
\* arriving first; each one's callback got its own port.
C11_Witness ==
    /\ Len(ports) = 2
    /\ ports[1].requestId # ports[2].requestId
    /\ \A id \in 1..2 :
          LET r == ports[id].requestId
          IN calls[r] # <<>> /\ \A i \in 1..Len(calls[r]) : calls[r][i].port = WindowPort(id, r)
    /\ resultBuffer_[ports[1].requestId] = WindowPort(1, ports[1].requestId)
    /\ resultBuffer_[ports[2].requestId] = WindowPort(2, ports[2].requestId)

\* C12: connectHost constructs exactly one host, chosen by the window facts
\* alone: an iframe host when win.top is another window, whatever the
\* opener; a popup host in a top-level window whose opener exists and is not
\* closed; a redirect host in a top-level window whose opener is null or closed.
C12_HostVariantByWindowFacts ==
    \A i \in 1..Len(hostCalls) :
        LET w == hostCalls[i].win
        IN /\ Len(hostCalls[i].constructed) = 1
           /\ w.top = "other" => hostCalls[i].constructed[1] = "iframe"
           /\ (w.top = "self" /\ w.opener = "open") => hostCalls[i].constructed[1] = "popup"
           /\ (w.top = "self" /\ w.opener \in {"null", "closed"})
                 => hostCalls[i].constructed[1] = "redirect"

\* connectHost called in a frame that has an opener and in a top-level
\* window whose opener was closed.
C12_Witness ==
    /\ Len(hostCalls) = 2
    /\ hostCalls[1].win = Window("other", "open")
    /\ hostCalls[2].win = Window("self", "closed")

\* C13: connectHost calls the selected host's connect once, with the request
\* it was given, and the promise it returns is settled exactly as connect's:
\* pending while connect is pending, resolved with the same object (also
\* when that is another host), rejected with the same error.
C13_ConnectHostSettlesAsConnect ==
    \A i \in 1..Len(hostCalls) :
        /\ hostCalls[i].connects = <<hostCalls[i].asked>>
        /\ hostCalls[i].returned = hostCalls[i].connect

\* One call whose connect resolved to another host, and one, made with a
\* request, whose connect rejected.
C13_Witness ==
    /\ Len(hostCalls) = 2
    /\ hostCalls[1].returned = Resolved("other")
    /\ hostCalls[2].asked = "request"
    /\ hostCalls[2].returned = Rejected("intentional")

\* C14: openIframe calls the port's connect once; its promise resolves, with
\* that port, only after connect resolved; when connect rejects it rejects
\* with the same error, connect is not called again and no port is handed out.
C14_OpenIframeFollowsConnect ==
    /\ [](\A i \in 1..Len(iframeCalls) :
            LET c == iframeCalls[i]
            IN /\ c.connects = 1
               /\ c.returned.state = "resolved" =>
                     c.connect.state = "resolved" /\ c.returned.value = c.port
               /\ c.returned.state = "rejected" => c.returned = c.connect
               /\ c.connect.state = "pending" => c.returned = Pending)
    /\ [][\A i \in 1..Len(iframeCalls) :
            (iframeCalls[i].returned # Pending /\ i <= Len(iframeCalls'))
                => iframeCalls'[i] = iframeCalls[i]]_vars

\* One openIframe whose connect resolved and that handed out its port, one
\* whose connect rejected and that rejected with the same error.
C14_Witness ==
    \E i, j \in 1..Len(iframeCalls) :
        /\ iframeCalls[i].returned = Resolved(iframeCalls[i].port)
        /\ iframeCalls[j].connect = Rejected("intentional")
        /\ iframeCalls[j].returned = Rejected("intentional")

\* The step is a call onResult(r, .), whatever it does to the handlers.
IsOnResultCall(r) == Len(regAvail'[r]) = Len(regAvail[r]) + 1

\* C15: with no fragment, a fragment that holds no readable result or one
\* tagged with another requestId, and nothing buffered for r, onResult(r, cb)
\* only appends cb to r's handlers: it queues nothing and leaves the buffer
\* alone; cb is invoked once a result for r has arrived through open and
\* the queue has drained.
C15_NoFragmentResultIsAbsence ==
    /\ [][\A r \in ReqIds :
            (IsOnResultCall(r) /\ fragment_ # ResultFragment(r) /\ ~IsPort(resultBuffer_[r]))
                => /\ \E cb \in Callbacks :
                        requestHandlers_' = [requestHandlers_ EXCEPT ![r] = Append(@, cb)]
                   /\ microtasks' = microtasks
                   /\ resultBuffer_' = resultBuffer_
                   /\ calls' = calls]_vars
    /\ [](\A r \in ReqIds : \A reg \in RegsOf(r) :
            (~regAvail[r][reg] /\ DispatchedPorts(r) # {} /\ microtasks = <<>>)
                => InvocationsOf(r, reg) # {})

\* A callback registered while the fragment held no readable result, and
\* invoked later with the port of an open result.
C15_Witness ==
    \E r \in ReqIds :
        /\ fragment_ = JunkFragment
        /\ Len(requestHandlers_[r]) = 1 /\ ~regAvail[r][1]
        /\ Len(calls[r]) = 1 /\ calls[r][1].port.kind = "window"

\* The same with no fragment, and with a fragment tagged with another requestId.
C15_WitnessOtherFragments ==
    \E r \in ReqIds :
        /\ fragment_ \in {NoFragment} \cup {ResultFragment(q) : q \in ReqIds \ {r}}
        /\ Len(requestHandlers_[r]) = 1 /\ ~regAvail[r][1]
        /\ Len(calls[r]) = 1 /\ calls[r][1].port.kind = "window"

\* The port object that the id-th open() created.
PortOf(id) == WindowPort(id, ports[id].requestId)

\* Port p is held by the manager or was handed to a callback.
Delivered(p) ==
    \/ \E r \in ReqIds : resultBuffer_[r] = p
    \/ \E r \in ReqIds : \E i \in 1..Len(calls[r]) : calls[r][i].port = p
    \/ \E k \in 1..Len(microtasks) : microtasks[k].port = p

\* C16: while no result exists for r (no port opened with r has resolved
\* its acceptResult and the captured fragment is not tagged r) no callback
\* of r is invoked or queued and nothing is buffered for r; the call of
\* open itself dispatches nothing and writes nothing, and the port of an
\* open whose acceptResult has not resolved, as that of a redirect-mode
\* open never does, reaches neither a callback nor the buffer.
C16_NoSpuriousDelivery ==
    /\ [](\A r \in ReqIds : NumResults(r) = 0 =>
            /\ calls[r] = <<>>
            /\ ~IsPort(resultBuffer_[r])
            /\ \A k \in 1..Len(microtasks) : microtasks[k].handler.req # r)
    /\ [](\A id \in 1..Len(ports) : ports[id].accept # "resolved" => ~Delivered(PortOf(id)))
    /\ [][Len(ports') = Len(ports) + 1 =>
            /\ microtasks' = microtasks
            /\ resultBuffer_' = resultBuffer_
            /\ calls' = calls]_vars

\* A callback registered for r, then r opened in redirect mode: the port
\* stays pending, nothing is buffered and the callback is not invoked.
C16_Witness ==
    \E r \in ReqIds :
        /\ requestHandlers_[r] # <<>>
        /\ \E id \in 1..Len(ports) :
              ports[id] = [requestId |-> r, target |-> "_top", accept |-> "pending"]
        /\ NumResults(r) = 0
        /\ calls[r] = <<>> /\ microtasks = <<>> /\ ~IsPort(resultBuffer_[r])

\* The only result of r is that of the id-th open(), and it was dispatched
\* while r had no callback: every registration of r was made afterwards.
ArrivedUnheard(r, id) ==
    /\ NumResults(r) = 1
    /\ DispatchedPorts(r) = {id}
    /\ \A reg \in RegsOf(r) : regAvail[r][reg]

\* C17: a result that arrives through open for a requestId without
\* callbacks is stored in the buffer all the same, and the first and every
\* later onResult registration for that requestId is delivered that port,
\* once each.
C17_UnheardResultIsBuffered ==
    /\ [][\A r \in ReqIds :
            (IsDispatchStep(r) /\ requestHandlers_[r] = <<>>)
                => /\ resultBuffer_'[r] = Head(microtasks).port
                   /\ microtasks' = Tail(microtasks)]_vars
    /\ [](\A r \in ReqIds : \A id \in 1..Len(ports) :
            ArrivedUnheard(r, id) =>
                /\ resultBuffer_[r] = PortOf(id)
                /\ \A i \in 1..Len(calls[r]) : calls[r][i].port = PortOf(id)
                /\ \A reg \in RegsOf(r) : Cardinality(InvocationsOf(r, reg)) <= 1
                /\ microtasks = <<>> =>
                      \A reg \in RegsOf(r) : Cardinality(InvocationsOf(r, reg)) = 1)

\* The result arrived before any callback was registered; two callbacks
\* registered afterwards were both invoked with the buffered port.
C17_Witness ==
    \E r \in ReqIds : \E id \in 1..Len(ports) :
        /\ ArrivedUnheard(r, id)
        /\ Len(requestHandlers_[r]) = 2
        /\ Len(calls[r]) = 2
        /\ calls[r][1].port = PortOf(id) /\ calls[r][2].port = PortOf(id)

\* What discoverResult_(r) would return in the current state.
Discoverable(r) == DiscoverResult(State, fragment_, r).port

\* C18: the captured fragment is never modified; a change of the page's
\* hash changes nothing of the manager and nothing of what discoverResult_
\* returns; and every onResult(r, .) finds exactly the result given by the
\* buffer and the captured fragment, whatever the page's hash is by then.
C18_DiscoveryUsesCapturedFragment ==
    /\ [][fragment_' = fragment_]_vars
    /\ [][hash' # hash =>
            /\ UNCHANGED managerVars
            /\ \A r \in ReqIds : Discoverable(r)' = Discoverable(r)]_vars
    /\ [][\A r \in ReqIds : IsOnResultCall(r) =>
            IF IsPort(AvailablePort(r))
            THEN /\ resultBuffer_' = [resultBuffer_ EXCEPT ![r] = AvailablePort(r)]
                 /\ microtasks' = Append(microtasks, CallTask(AvailablePort(r), NewHandler(r)))
            ELSE /\ resultBuffer_' = resultBuffer_
                 /\ microtasks' = microtasks]_vars

\* The hash was cleared after construction and the captured result was
\* still discovered and delivered.
C18_Witness ==
    \E r \in ReqIds :
        /\ fragment_ = ResultFragment(r)
        /\ hash = NoFragment
        /\ \E reg \in RegsOf(r) : regAvail[r][reg]
        /\ calls[r] # <<>> /\ calls[r][1].port = RedirectPort(r)

\* A result appeared in the hash after construction and was not discovered.
C18_WitnessLateHash ==
    \E r \in ReqIds :
        /\ fragment_ = NoFragment
        /\ hash = ResultFragment(r)
        /\ requestHandlers_[r] # <<>> /\ ~regAvail[r][Len(regAvail[r])]
        /\ ~IsPort(resultBuffer_[r]) /\ microtasks = <<>> /\ calls[r] = <<>>

\* The queued reactions that will call a callback of r.
QueuedCalls(r) ==
    {k \in 1..Len(microtasks) :
        microtasks[k].type = "call" /\ microtasks[k].handler.req = r}

\* C19: a callback of r is queued or invoked only while resultBuffer_ holds
\* a port for r, so at every invocation the buffer has an entry for r; and
\* an onResult(r, .) made once a callback of r has been invoked finds that
\* entry and queues one delivery of it to the new callback.
C19_InvokedImpliesBuffered ==
    /\ [](\A r \in ReqIds :
            (calls[r] # <<>> \/ QueuedCalls(r) # {}) => IsPort(resultBuffer_[r]))
    /\ [][IsCallbackStep => IsPort(resultBuffer_[Head(microtasks).handler.req])]_vars
    /\ [][\A r \in ReqIds : (IsOnResultCall(r) /\ calls[r] # <<>>) =>
            /\ regAvail'[r][Len(regAvail'[r])]
            /\ resultBuffer_' = resultBuffer_
            /\ microtasks' = Append(microtasks, CallTask(resultBuffer_[r], NewHandler(r)))]_vars

\* The first callback of r was invoked and nothing else is registered; then
\* a second onResult(r, .) found the buffered port and its delivery is queued.
C19_Witness ==
    \E r \in ReqIds :
        /\ Len(requestHandlers_[r]) = 2
        /\ Len(calls[r]) = 1 /\ calls[r][1].handler.reg = 1
        /\ regAvail[r][2]
        /\ microtasks = <<CallTask(resultBuffer_[r], Handler(r, 2, requestHandlers_[r][2]))>>

\* The step rejects the acceptResult() promise of port id.
IsRejectStep(id) == ports[id].accept = "pending" /\ ports'[id].accept = "rejected"

\* The ports opened with r whose acceptResult() promise resolved.
ResolvedFor(r) ==
    {id \in 1..Len(ports) : ports[id].requestId = r /\ ports[id].accept = "resolved"}

\* C20: the rejection of a port's acceptResult() promise changes neither the
\* buffer nor the registry and queues and calls nothing; the rejected port
\* is never stored, queued or handed to a callback; and once the queue is
\* drained, a result that resolved for r has reached every registered
\* callback of r, whichever ports of r were rejected.
C20_RejectionDeliversNothing ==
    /\ [][\A id \in 1..Len(ports) : IsRejectStep(id) =>
            UNCHANGED <<resultBuffer_, requestHandlers_, microtasks, calls>>]_vars
    /\ [](\A id \in 1..Len(ports) :
            ports[id].accept = "rejected" => ~Delivered(PortOf(id)))
    /\ [](\A r \in ReqIds :
            (microtasks = <<>> /\ ResolvedFor(r) # {}) =>
                \A reg \in RegsOf(r) : \E i \in InvocationsOf(r, reg) :
                    calls[r][i].port \in {PortOf(id) : id \in ResolvedFor(r)})

\* A callback was registered, the first port opened for r rejected, and the
\* callback was then invoked with the result of a second port for r.
C20_Witness ==
    \E r \in ReqIds :
        /\ Len(ports) = 2
        /\ ports[1].requestId = r /\ ports[1].accept = "rejected"
        /\ ports[2].requestId = r /\ ports[2].accept = "resolved"
        /\ Len(requestHandlers_[r]) = 1 /\ ~regAvail[r][1]
        /\ Len(calls[r]) = 1 /\ calls[r][1].port = PortOf(2)
        /\ resultBuffer_[r] = PortOf(2)

====
